---- MODULE Spec2Model ----
(***************************************************************************)
(* The blackjack engine of src/blackjack.py as a state machine.           *)
(*                                                                         *)
(* The state is one Blackjack object: its shoe (Deck.cards and             *)
(* Deck.discard_pile), the player's bankroll, hands and statistics, the    *)
(* dealer hand and the round state.  Every public method of Blackjack is   *)
(* one action.  A method is modelled by an operator from the object's      *)
(* state to the state it leaves behind and the way it ends: a returned     *)
(* value, or the exception that escapes it (with the assignments made      *)
(* before the raise kept).                                                 *)
(*                                                                         *)
(* Money is in whole dollars; every bet drawn is even, so bet * 0.5 and    *)
(* bet * (1 + 1.5) are exact.  The event logs (Hand.moves,                 *)
(* Player.round_events) and the timing fields are not kept: only the       *)
(* evaluations made to build an event are, because they can raise.         *)
(***************************************************************************)
EXTENDS Integers, Sequences, FiniteSets, TLC

\* ---------------------------------------------------------------- bounds
\* number of cards of a freshly built shoe (stands for number_of_decks * 52)
ShoeCards == 5
\* bankroll handed to the constructor
InitialBankroll == 30
\* depth at which the interpreter gives up a chain of nested calls
RecursionLimit == 6
\* calls of place_insurance explored (the call can be repeated for ever)
MaxInsuranceCalls == 2
\* longest hand drawn as an input of resolve_hand
MaxHandLen == 3
\* hands settled before finish_round and play_round stop being called
\* (play_dealer_hand reopens a COMPLETE round, so settling can go on for ever)
MaxHandsPlayed == 2
\* number of cards of the shoe in the runs that follow a split (the deal
\* takes 4 cards, the dealer 1, the split 2)
SplitShoeCards == 7
\* bankroll handed to the constructor in the runs that bet at the limits
\* (max_bet + min_bet: the largest bet, then one more)
HighBankroll == 510

\* ------------------------------------------------- BlackjackRules defaults
deck_penetration_num == 4
deck_penetration_den == 5
max_splits == 3
allow_resplit_aces == FALSE
allow_double_after_split == TRUE
allow_surrender == TRUE
insurance_offered == TRUE
even_money_offered == TRUE
min_bet == 10
max_bet == 500
\* blackjack_payout 1.5 as a fraction
blackjack_payout_num == 3
blackjack_payout_den == 2
insurance_payout == 2

\* the ranks of the shoe (a subset of the thirteen ranks of Deck.reset)
Ranks == {"A", "6", "K"}

\* the bets offered to start_round and play_round: below min_bet, and valid
Bets == {min_bet - 2, min_bet, 2 * min_bet}

\* ------------------------------------------------------------------ Card
CardValue(rank) ==
    IF rank \in {"J", "Q", "K"} THEN 10
    ELSE IF rank = "A" THEN 11
    ELSE IF rank = "10" THEN 10
    ELSE IF rank = "9" THEN 9
    ELSE IF rank = "8" THEN 8
    ELSE IF rank = "7" THEN 7
    ELSE IF rank = "6" THEN 6
    ELSE IF rank = "5" THEN 5
    ELSE IF rank = "4" THEN 4
    ELSE IF rank = "3" THEN 3
    ELSE 2

\* ------------------------------------------------------------------ Hand
NewHand ==
    [cards |-> <<>>, bet |-> 0, is_split |-> FALSE, is_doubled |-> FALSE,
     is_surrendered |-> FALSE, original_bet |-> 0, split_from_aces |-> FALSE,
     insurance_bet |-> 0, took_even_money |-> FALSE]

RECURSIVE NonAceValue(_)
NonAceValue(cs) ==
    IF cs = <<>> THEN 0
    ELSE (IF Head(cs) # "A" THEN CardValue(Head(cs)) ELSE 0) + NonAceValue(Tail(cs))

RECURSIVE Aces(_)
Aces(cs) ==
    IF cs = <<>> THEN 0
    ELSE (IF Head(cs) = "A" THEN 1 ELSE 0) + Aces(Tail(cs))

\* the arithmetic of Hand.get_value: aces low, one ace promoted if it fits
HandTotal(cs) ==
    LET value == NonAceValue(cs) + Aces(cs)
    IN  IF Aces(cs) > 0 /\ value + 10 <= 21 THEN value + 10 ELSE value

Raised == [raised |-> TRUE, value |-> 0, blackjack |-> FALSE, val |-> FALSE]

Returned(b) == [raised |-> FALSE, value |-> 0, blackjack |-> FALSE, val |-> b]

\* F applied to the value of v, evaluated once (a local variable assigned
\* once and read many times)
Bind(v, F(_)) == CHOOSE r \in {F(y) : y \in {v}} : TRUE

\* Hand.get_value returns (value, self.is_blackjack()), and Hand.is_blackjack
\* evaluates self.get_value()[0] as soon as the hand holds exactly 2 cards:
\* the two call each other, depth counts the nested calls, and the chain
\* ends in RecursionError when it passes the interpreter's limit.
RECURSIVE get_value(_, _)
RECURSIVE is_blackjack(_, _)
get_value(h, depth) ==
    IF depth > RecursionLimit THEN Raised
    ELSE Bind(is_blackjack(h, depth + 1), LAMBDA bj :
         IF bj.raised THEN Raised
         ELSE [raised |-> FALSE, value |-> HandTotal(h.cards),
               blackjack |-> bj.val, val |-> FALSE])

is_blackjack(h, depth) ==
    IF depth > RecursionLimit THEN Raised
    ELSE IF Len(h.cards) # 2 THEN Returned(FALSE)
    ELSE Bind(get_value(h, depth + 1), LAMBDA gv :
         IF gv.raised THEN Raised
         ELSE Returned(gv.value = 21 /\ ~h.is_split /\ ~h.took_even_money))

is_busted(h) ==
    Bind(get_value(h, 0), LAMBDA gv :
         IF gv.raised THEN Raised ELSE Returned(gv.value > 21))

\* the operands of the "or" chain are evaluated left to right
is_done(h) ==
    Bind(is_busted(h), LAMBDA bu :
    IF bu.raised THEN Raised
    ELSE IF bu.val THEN Returned(TRUE)
    ELSE Bind(is_blackjack(h, 0), LAMBDA bj :
         IF bj.raised THEN Raised
         ELSE Returned(bj.val
                       \/ h.is_surrendered
                       \/ h.took_even_money
                       \/ (h.is_doubled /\ Len(h.cards) > 2)
                       \/ (h.split_from_aces /\ Len(h.cards) > 1))))

is_soft(h) ==
    Aces(h.cards) > 0 /\ (NonAceValue(h.cards) + Aces(h.cards) - 1 + 11) <= 21

can_split(h) ==
    IF ~(Len(h.cards) = 2 /\ h.cards[1] = h.cards[2]
         /\ ~h.is_doubled /\ ~h.is_surrendered)
    THEN FALSE
    ELSE IF h.cards[1] = "A" THEN (~h.is_split \/ allow_resplit_aces)
    ELSE TRUE

can_double(h) ==
    /\ Len(h.cards) = 2
    /\ ~h.is_doubled
    /\ ~h.is_surrendered
    /\ (~h.is_split \/ allow_double_after_split)

can_surrender(h) ==
    /\ allow_surrender
    /\ Len(h.cards) = 2
    /\ ~h.is_split
    /\ ~h.is_doubled
    /\ ~h.is_surrendered

\* str(hand): Hand.__str__ calls get_status, which calls get_value
StrRaises(h) == get_value(h, 0).raised

\* Hand.add_card: the card is appended before the "hit" event is built, and
\* building the event evaluates get_value and str(self)
add_card(h, card) ==
    Bind(is_done(h), LAMBDA d :
    IF d.raised THEN [hand |-> h, ret |-> "RecursionError"]
    ELSE IF d.val THEN [hand |-> h, ret |-> "False"]
    ELSE Bind([h EXCEPT !.cards = Append(@, card)], LAMBDA h2 :
         IF StrRaises(h2)
         THEN [hand |-> h2, ret |-> "RecursionError"]
         ELSE [hand |-> h2, ret |-> "True"]))

\* ------------------------------------------------------- the game object
VARIABLES cards, discard_pile, bankroll, hands, dealer_hand, round_state,
          stats, last, wager, sim

NewStats ==
    [hands_played |-> 0, hands_won |-> 0, hands_lost |-> 0, hands_pushed |-> 0,
     hands_surrendered |-> 0, blackjacks |-> 0, splits |-> 0, doubles |-> 0,
     insurances_taken |-> 0, insurances_won |-> 0,
     total_won |-> 0, total_lost |-> 0, biggest_win |-> 0, biggest_loss |-> 0,
     original_wagers |-> 0, additional_wagers |-> 0, insurance_wagers |-> 0]

\* the fields of one Blackjack object; fresh is the order the next shuffle
\* of Deck.reset produces
Game(fresh) ==
    [cards |-> cards, discard_pile |-> discard_pile, bankroll |-> bankroll,
     hands |-> hands, dealer_hand |-> dealer_hand, round_state |-> round_state,
     stats |-> stats, fresh |-> fresh]

Max(a, b) == IF a >= b THEN a ELSE b

\* how a method ends: ret is the value returned ("True", "False", "None",
\* "RoundResult") or the exception raised ("GameError", "RecursionError",
\* "IndexError"); results and total are RoundResult.hand_results and
\* total_win_loss; amount is the second component of a returned pair; placed
\* tells that Player.place_bet accepted the bet
Out(g, ret) ==
    [g |-> g, ret |-> ret, results |-> <<>>, total |-> 0, amount |-> 0,
     placed |-> FALSE]

\* ------------------------------------------------------------------ Deck
\* Deck.draw: an empty cards list is refilled by reset only if the discard
\* pile is smaller than (len(cards) + len(discard_pile)) * (1 - penetration)
\* the same test with "not above" in place of "smaller than"
ReshufflesAt_not_above(g, num) ==
    LET total_cards == Len(g.cards) + Len(g.discard_pile)
    IN  Len(g.discard_pile) * deck_penetration_den
            <= total_cards * (deck_penetration_den - num)

\* the test for rules whose deck_penetration is num / deck_penetration_den
ReshufflesAt(g, num) ==
    LET total_cards == Len(g.cards) + Len(g.discard_pile)
    IN  Len(g.discard_pile) * deck_penetration_den
            < total_cards * (deck_penetration_den - num)

Reshuffles(g) == ReshufflesAt(g, deck_penetration_num)

\* Deck.draw of a shoe built with a deck_penetration of
\* num / deck_penetration_den
draw_at(g, num) ==
    LET g1 == IF g.cards = <<>> /\ ReshufflesAt(g, num)
              THEN [g EXCEPT !.cards = g.fresh, !.discard_pile = <<>>]
              ELSE g
    IN  IF g.cards = <<>> /\ ~ReshufflesAt(g, num)
        THEN [ok |-> FALSE, card |-> "None", g |-> g]
        ELSE [ok |-> TRUE, card |-> g1.cards[Len(g1.cards)],
              g |-> [g1 EXCEPT !.cards = SubSeq(@, 1, Len(@) - 1),
                               !.discard_pile = Append(@, g1.cards[Len(g1.cards)])]]

\* draw that pops the card and never puts it on the discard pile
draw_keeps_no_discard(g) ==
    IF g.cards = <<>> THEN [ok |-> FALSE, card |-> "None", g |-> g]
    ELSE [ok |-> TRUE, card |-> g.cards[Len(g.cards)],
          g |-> [g EXCEPT !.cards = SubSeq(@, 1, Len(@) - 1)]]

\* draw that takes the first card of the list instead of the last
draw_from_front(g) ==
    IF g.cards = <<>> THEN [ok |-> FALSE, card |-> "None", g |-> g]
    ELSE [ok |-> TRUE, card |-> g.cards[1],
          g |-> [g EXCEPT !.cards = Tail(@),
                          !.discard_pile = Append(@, g.cards[1])]]

draw(g) == draw_at(g, deck_penetration_num)

\* ---------------------------------------------------------------- Player
_validate_bet(g, amount) == amount > 0 /\ amount <= g.bankroll

\* place_bet with the debit made before the bet is validated
place_bet_debits_first(g, amount) ==
    IF ~_validate_bet(g, amount)
    THEN Out([g EXCEPT !.bankroll = @ - amount], "False")
    ELSE Out([g EXCEPT !.bankroll = @ - amount,
                       !.hands[1].bet = amount,
                       !.hands[1].original_bet = amount,
                       !.stats.original_wagers = @ + amount], "True")

\* Player.place_bet, on the hand that is hands[0] when it is called
place_bet(g, amount) ==
    IF ~_validate_bet(g, amount) THEN Out(g, "False")
    ELSE Out([g EXCEPT !.bankroll = @ - amount,
                       !.hands[1].bet = amount,
                       !.hands[1].original_bet = amount,
                       !.stats.original_wagers = @ + amount], "True")

reset_hands(g) == [g EXCEPT !.hands = <<NewHand>>]

\* Player.update_stats: the counters of the outcome are updated, then the
\* "result" event is built (str(hand) can raise), then hands_played grows
update_stats(g, result, amount, hand) ==
    LET net_win == IF amount > 0 THEN amount - hand.original_bet
                   ELSE 0 - hand.original_bet
        s == g.stats
    IN  Bind(IF result = "win"
             THEN [s EXCEPT !.hands_won = @ + 1, !.total_won = @ + net_win,
                            !.biggest_win = Max(@, net_win)]
             ELSE IF result = "lose"
             THEN [s EXCEPT !.hands_lost = @ + 1,
                            !.total_lost = @ + hand.original_bet,
                            !.biggest_loss = Max(@, hand.original_bet)]
             ELSE IF result = "blackjack"
             THEN [s EXCEPT !.hands_won = @ + 1, !.blackjacks = @ + 1,
                            !.total_won = @ + net_win,
                            !.biggest_win = Max(@, net_win)]
             ELSE IF result = "surrender"
             THEN [s EXCEPT !.hands_surrendered = @ + 1,
                            !.total_lost = @ + (hand.original_bet \div 2)]
             ELSE IF result = "push"
             THEN [s EXCEPT !.hands_pushed = @ + 1]
             ELSE s,
        LAMBDA s1 :
             IF StrRaises(hand)
             THEN Out([g EXCEPT !.stats = s1], "RecursionError")
             ELSE Out([g EXCEPT !.stats = [s1 EXCEPT !.hands_played = @ + 1]], "None"))

\* ------------------------------------------------------------- Blackjack
\* the decorator validate_game_state, for the method named f
validate_game_state(g, f) ==
    IF g.cards = <<>> /\ g.discard_pile = <<>> THEN "GameError"
    ELSE IF g.bankroll <= 0 THEN "GameError"
    ELSE IF f = "start_round" THEN "ok"
    ELSE IF g.round_state = "NOT_STARTED" /\ f \notin {"play_round", "start_round"}
    THEN "GameError"
    ELSE IF g.round_state = "COMPLETE" /\ f \notin {"play_round", "start_round"}
    THEN "GameError"
    ELSE "ok"

\* the loop of deal_initial_cards, with k passes left
RECURSIVE DealLoop(_, _)
DealLoop(g, k) ==
    IF k = 0 THEN Out([g EXCEPT !.round_state = "INITIAL_DEAL"], "True")
    ELSE Bind(draw(g), LAMBDA d1 :
         Bind(draw(d1.g), LAMBDA d2 :
         IF ~d1.ok \/ ~d2.ok THEN Out(d2.g, "False")
         ELSE Bind(add_card(d2.g.hands[1], d1.card), LAMBDA a1 :
              IF a1.ret = "RecursionError"
              THEN Out([d2.g EXCEPT !.hands[1] = a1.hand], "RecursionError")
              ELSE Bind(add_card(d2.g.dealer_hand, d2.card), LAMBDA a2 :
                   Bind([d2.g EXCEPT !.hands[1] = a1.hand, !.dealer_hand = a2.hand],
                   LAMBDA g2 :
                        IF a2.ret = "RecursionError" THEN Out(g2, "RecursionError")
                        ELSE DealLoop(g2, k - 1))))))

deal_initial_cards(g) ==
    DealLoop([reset_hands(g) EXCEPT !.dealer_hand = NewHand], 2)

start_round(g, bet_amount) ==
    IF validate_game_state(g, "start_round") # "ok" THEN Out(g, "GameError")
    ELSE IF g.round_state # "NOT_STARTED" THEN Out(g, "GameError")
    ELSE IF bet_amount < min_bet \/ bet_amount > max_bet THEN Out(g, "GameError")
    ELSE Bind(place_bet(g, bet_amount), LAMBDA pb :
         IF pb.ret = "False" THEN Out(pb.g, "GameError")
         ELSE Bind(deal_initial_cards(pb.g), LAMBDA dl :
              IF dl.ret # "True" THEN [dl EXCEPT !.placed = TRUE]
              ELSE [Out([dl.g EXCEPT !.round_state = "PLAYER_TURN"], "True")
                        EXCEPT !.placed = TRUE]))

\* the body of hit, below the decorator
HitBody(g, i) ==
    Bind(is_done(g.hands[i]), LAMBDA dn :
    IF dn.raised THEN Out(g, "RecursionError")
    ELSE IF dn.val THEN Out(g, "False")
    ELSE Bind(draw(g), LAMBDA d :
         IF ~d.ok THEN Out(d.g, "False")
         ELSE Bind(add_card(g.hands[i], d.card), LAMBDA a :
              Bind([d.g EXCEPT !.hands[i] = a.hand], LAMBDA g1 :
              IF a.ret = "RecursionError" THEN Out(g1, "RecursionError")
              ELSE IF a.ret = "False" THEN Out(g1, "False")
              \* the "hit" event: str(hand), then the dealer's first card
              ELSE IF StrRaises(a.hand) THEN Out(g1, "RecursionError")
              ELSE IF g1.dealer_hand.cards = <<>> THEN Out(g1, "IndexError")
              ELSE Out(g1, "True")))))

hit(g, i) ==
    IF validate_game_state(g, "hit") # "ok" THEN Out(g, "GameError")
    ELSE HitBody(g, i)

\* double_down that takes the money without asking whether the bankroll
\* holds it
double_down_unfunded(g, i) ==
    IF validate_game_state(g, "double_down") # "ok" THEN Out(g, "GameError")
    ELSE IF ~can_double(g.hands[i]) THEN Out(g, "False")
    ELSE Bind(hit([g EXCEPT !.bankroll = @ - g.hands[i].bet,
                            !.hands[i].bet = @ * 2,
                            !.hands[i].is_doubled = TRUE,
                            !.stats.doubles = @ + 1,
                            !.stats.additional_wagers = @ + g.hands[i].original_bet],
                  i),
         LAMBDA h :
              IF h.ret # "True" THEN h
              ELSE IF StrRaises(h.g.hands[i]) THEN Out(h.g, "RecursionError")
              ELSE h)

\* double_down calls the decorated hit after it has taken the money
double_down(g, i) ==
    IF validate_game_state(g, "double_down") # "ok" THEN Out(g, "GameError")
    ELSE IF ~can_double(g.hands[i]) \/ g.bankroll < g.hands[i].bet THEN Out(g, "False")
    ELSE Bind(hit([g EXCEPT !.bankroll = @ - g.hands[i].bet,
                            !.hands[i].bet = @ * 2,
                            !.hands[i].is_doubled = TRUE,
                            !.stats.doubles = @ + 1,
                            !.stats.additional_wagers = @ + g.hands[i].original_bet],
                  i),
         LAMBDA h :
              IF h.ret # "True" THEN h
              ELSE IF StrRaises(h.g.hands[i]) THEN Out(h.g, "RecursionError")
              ELSE h)

InsertAt(s, k, e) == SubSeq(s, 1, k) \o <<e>> \o SubSeq(s, k + 1, Len(s))

\* the part of split that follows the three tests: new_hand takes the card
\* popped from the original hand, then each hand is dealt one card
\* a split that puts the new hand among the player's hands and then gives up
SplitBody_keeps_new_hand(g, hand_index) ==
    Out([g EXCEPT !.hands =
             InsertAt([@ EXCEPT ![hand_index].cards = SubSeq(@, 1, Len(@) - 1),
                                ![hand_index].is_split = TRUE],
                      hand_index,
                      [NewHand EXCEPT !.cards = <<g.hands[hand_index].cards[2]>>,
                                      !.is_split = TRUE])],
        "False")

SplitBody(g, hand_index) ==
    Bind(g.hands[hand_index], LAMBDA original_hand :
    Bind(add_card([NewHand EXCEPT !.bet = original_hand.original_bet,
                                  !.original_bet = original_hand.original_bet,
                                  !.is_split = TRUE],
                  original_hand.cards[Len(original_hand.cards)]),
    LAMBDA moved :
    Bind(original_hand.cards[1] = "A", LAMBDA is_aces :
    Bind([original_hand EXCEPT !.cards = SubSeq(@, 1, Len(@) - 1),
                               !.split_from_aces = (@ \/ is_aces),
                               !.is_split = TRUE],
    LAMBDA o2 :
    Bind(IF is_aces THEN [moved.hand EXCEPT !.split_from_aces = TRUE] ELSE moved.hand,
    LAMBDA new1 :
    Bind(draw([g EXCEPT !.hands[hand_index] = o2]), LAMBDA d1 :
    IF ~d1.ok THEN Out(d1.g, "False")
    ELSE Bind(add_card(o2, d1.card), LAMBDA a1 :
         Bind([d1.g EXCEPT !.hands[hand_index] = a1.hand], LAMBDA g3 :
         IF a1.ret = "RecursionError" THEN Out(g3, "RecursionError")
         ELSE Bind(draw(g3), LAMBDA d2 :
              IF ~d2.ok THEN Out(d2.g, "False")
              ELSE Bind(add_card(new1, d2.card), LAMBDA a2 :
                   IF a2.ret = "RecursionError" THEN Out(d2.g, "RecursionError")
                   ELSE Out([d2.g EXCEPT
                                 !.hands = InsertAt(@, hand_index, a2.hand),
                                 !.bankroll = @ - a1.hand.bet,
                                 !.stats.splits = @ + 1,
                                 !.stats.additional_wagers = @ + a1.hand.original_bet],
                            "True")))))))))))

split(g, hand_index) ==
    IF validate_game_state(g, "split") # "ok" THEN Out(g, "GameError")
    ELSE IF Len(g.hands) >= max_splits + 1 THEN Out(g, "False")
    ELSE IF ~can_split(g.hands[hand_index]) THEN Out(g, "False")
    ELSE IF g.bankroll < g.hands[hand_index].original_bet THEN Out(g, "False")
    ELSE SplitBody(g, hand_index)

surrender(g, i) ==
    IF validate_game_state(g, "surrender") # "ok" THEN Out(g, "GameError")
    ELSE IF ~can_surrender(g.hands[i]) THEN Out(g, "False")
    ELSE Bind(g.hands[i].bet \div 2, LAMBDA surrender_amount :
         Bind([g EXCEPT !.hands[i].is_surrendered = TRUE,
                        !.bankroll = @ + surrender_amount],
         LAMBDA g1 :
         Bind(update_stats(g1, "surrender", surrender_amount, g1.hands[i]), LAMBDA u :
              IF u.ret = "RecursionError" THEN u
              ELSE [Out(u.g, "True") EXCEPT !.amount = surrender_amount])))

\* place_insurance that does not look at the dealer's upcard
place_insurance_any_upcard(g, i) ==
    LET insurance_amount == g.hands[i].original_bet \div 2
    IN  IF validate_game_state(g, "place_insurance") # "ok" THEN Out(g, "GameError")
        ELSE IF ~insurance_offered THEN Out(g, "False")
        ELSE IF g.bankroll < insurance_amount THEN Out(g, "False")
        ELSE Out([g EXCEPT !.bankroll = @ - insurance_amount,
                           !.hands[i].insurance_bet = insurance_amount,
                           !.stats.insurances_taken = @ + 1,
                           !.stats.insurance_wagers = @ + insurance_amount],
                 "True")

place_insurance(g, i) ==
    LET insurance_amount == g.hands[i].original_bet \div 2
    IN  IF validate_game_state(g, "place_insurance") # "ok" THEN Out(g, "GameError")
        ELSE IF ~insurance_offered THEN Out(g, "False")
        ELSE IF g.dealer_hand.cards = <<>> THEN Out(g, "IndexError")
        ELSE IF g.dealer_hand.cards[1] # "A" THEN Out(g, "False")
        ELSE IF g.bankroll < insurance_amount THEN Out(g, "False")
        ELSE Out([g EXCEPT !.bankroll = @ - insurance_amount,
                           !.hands[i].insurance_bet = insurance_amount,
                           !.stats.insurances_taken = @ + 1,
                           !.stats.insurance_wagers = @ + insurance_amount],
                 "True")

handle_insurance_payout(g, i) ==
    LET payout == g.hands[i].insurance_bet * (1 + insurance_payout)
    IN  IF g.hands[i].insurance_bet = 0 THEN Out(g, "None")
        ELSE Bind(is_blackjack(g.dealer_hand, 0), LAMBDA bj :
             IF bj.raised THEN Out(g, "RecursionError")
             ELSE IF bj.val
             THEN [Out([g EXCEPT !.bankroll = @ + payout,
                                 !.stats.insurances_won = @ + 1], "payout")
                       EXCEPT !.amount = payout]
             ELSE Out(g, "payout"))

\* Hand.can_take_even_money; the dealer upcard is fetched before the call
take_even_money(g, i) ==
    IF validate_game_state(g, "take_even_money") # "ok" THEN Out(g, "GameError")
    ELSE IF g.dealer_hand.cards = <<>> THEN Out(g, "IndexError")
    ELSE IF ~even_money_offered THEN Out(g, "False")
    ELSE Bind(is_blackjack(g.hands[i], 0), LAMBDA bj :
         IF bj.raised THEN Out(g, "RecursionError")
         ELSE IF ~(bj.val /\ g.dealer_hand.cards[1] = "A" /\ ~g.hands[i].took_even_money)
         THEN Out(g, "False")
         ELSE Bind(g.hands[i].bet * 2, LAMBDA payout :
              Bind([g EXCEPT !.hands[i].took_even_money = TRUE,
                             !.bankroll = @ + payout],
              LAMBDA g1 :
              Bind(update_stats(g1, "win", payout, g1.hands[i]), LAMBDA u :
                   IF u.ret = "RecursionError" THEN u
                   ELSE [Out(u.g, "True") EXCEPT !.amount = payout]))))

\* play_dealer_hand: the loop, entered after round_state is set
RECURSIVE DealerLoop(_)
DealerLoop(g) ==
    Bind(get_value(g.dealer_hand, 0), LAMBDA gv :
    IF gv.raised THEN Out(g, "RecursionError")
    ELSE IF gv.value > 17 THEN Out(g, "True")
    ELSE IF gv.value = 17 /\ ~is_soft(g.dealer_hand) THEN Out(g, "True")
    ELSE Bind(draw(g), LAMBDA d :
         IF ~d.ok THEN Out(d.g, "False")
         ELSE Bind(add_card(g.dealer_hand, d.card), LAMBDA a :
              Bind([d.g EXCEPT !.dealer_hand = a.hand], LAMBDA g1 :
              IF a.ret = "RecursionError" THEN Out(g1, "RecursionError")
              \* a dealer hand that refuses the card is asked again for ever
              ELSE IF a.ret = "False" THEN Out(g1, "NoReturn")
              ELSE DealerLoop(g1)))))

play_dealer_hand(g) == DealerLoop([g EXCEPT !.round_state = "DEALER_TURN"])

NoResult == [raised |-> FALSE, outcome |-> "none", payout |-> 0]
Resolved(outcome, payout) == [raised |-> FALSE, outcome |-> outcome, payout |-> payout]

resolve_hand(g, hand) ==
    IF hand.is_surrendered THEN Resolved("surrender", hand.bet \div 2)
    ELSE Bind(get_value(hand, 0), LAMBDA pv :
         Bind(get_value(g.dealer_hand, 0), LAMBDA dv :
         LET player_value == pv.value
             player_blackjack == pv.blackjack
             dealer_value == dv.value
             dealer_blackjack == dv.blackjack
         IN  IF pv.raised \/ dv.raised THEN [NoResult EXCEPT !.raised = TRUE]
             ELSE IF player_value > 21 THEN Resolved("lose", 0)
             ELSE IF dealer_value > 21 THEN Resolved("win", hand.bet * 2)
             ELSE IF player_blackjack /\ ~hand.is_split /\ ~dealer_blackjack
             THEN Resolved("blackjack",
                           (hand.bet * (blackjack_payout_den + blackjack_payout_num))
                               \div blackjack_payout_den)
             ELSE IF dealer_blackjack /\ ~(player_blackjack /\ ~hand.is_split)
             THEN Resolved("lose", 0)
             ELSE IF player_blackjack /\ dealer_blackjack /\ ~hand.is_split
             THEN Resolved("push", hand.bet)
             ELSE IF player_value > dealer_value THEN Resolved("win", hand.bet * 2)
             ELSE IF player_value < dealer_value THEN Resolved("lose", 0)
             ELSE Resolved("push", hand.bet)))

\* building the RoundResult: str(dealer_hand), then str(hand) of every hand
ResultRaises(g) ==
    StrRaises(g.dealer_hand) \/ \E k \in 1..Len(g.hands) : StrRaises(g.hands[k])

RoundResult(g, results, total) ==
    IF ResultRaises(g) THEN Out(g, "RecursionError")
    ELSE [Out(g, "RoundResult") EXCEPT !.results = results, !.total = total]

\* one pass of the loop of handle_dead_hand, on the hand of index k: st is
\* the state, the results and the total reached, or the exception raised
DeadStep(st, k) ==
    IF st.ret # "ok" THEN st
    ELSE Bind(st.g.hands[k], LAMBDA hand :
         Bind(is_done(hand), LAMBDA dn :
         IF dn.raised THEN [st EXCEPT !.ret = "RecursionError"]
         ELSE IF ~dn.val
         THEN Bind(update_stats([st.g EXCEPT !.bankroll = @ + hand.bet],
                                "push", hand.bet, hand),
              LAMBDA u :
                   [g |-> u.g,
                    ret |-> IF u.ret = "RecursionError" THEN u.ret ELSE "ok",
                    results |-> Append(st.results,
                                       [outcome |-> "push", payout |-> hand.bet]),
                    total |-> st.total])
         ELSE Bind(resolve_hand(st.g, hand), LAMBDA r :
              IF r.raised THEN [st EXCEPT !.ret = "RecursionError"]
              ELSE Bind(update_stats([st.g EXCEPT !.bankroll = @ + r.payout],
                                     r.outcome, r.payout, hand),
                   LAMBDA u :
                        [g |-> u.g,
                         ret |-> IF u.ret = "RecursionError" THEN u.ret ELSE "ok",
                         results |-> Append(st.results,
                                            [outcome |-> r.outcome, payout |-> r.payout]),
                         total |-> st.total + r.payout - hand.original_bet]))))

RECURSIVE DeadLoop(_, _)
DeadLoop(st, k) ==
    IF k > Len(st.g.hands) \/ st.ret # "ok" THEN st
    ELSE DeadLoop(DeadStep(st, k), k + 1)

LoopStart(g) == [g |-> g, ret |-> "ok", results |-> <<>>, total |-> 0]

\* the end of handle_dead_hand and of finish_round
Complete(st) ==
    IF st.ret # "ok" THEN Out(st.g, st.ret)
    ELSE RoundResult([st.g EXCEPT !.round_state = "COMPLETE"], st.results, st.total)

handle_dead_hand(g) == Complete(DeadLoop(LoopStart(g), 1))

\* all(hand.is_done() for hand in self.player.hands), from the hand of index k
RECURSIVE AllDone(_, _)
AllDone(g, k) ==
    IF k > Len(g.hands) THEN Returned(TRUE)
    ELSE Bind(is_done(g.hands[k]), LAMBDA dn :
         IF dn.raised THEN Raised
         ELSE IF ~dn.val THEN Returned(FALSE)
         ELSE AllDone(g, k + 1))

\* one pass of the resolution loop of finish_round, on the hand of index k
ResolveStep(st, k) ==
    IF st.ret # "ok" \/ st.g.hands[k].took_even_money THEN st
    ELSE Bind(st.g.hands[k], LAMBDA hand :
         Bind(resolve_hand(st.g, hand), LAMBDA r :
         IF r.raised THEN [st EXCEPT !.ret = "RecursionError"]
         ELSE Bind(update_stats([st.g EXCEPT !.bankroll = @ + r.payout],
                                r.outcome, r.payout, hand),
              LAMBDA u :
                   [g |-> u.g,
                    ret |-> IF u.ret = "RecursionError" THEN u.ret ELSE "ok",
                    results |-> Append(st.results,
                                       [outcome |-> r.outcome, payout |-> r.payout]),
                    total |-> st.total + r.payout - hand.original_bet])))

RECURSIVE ResolveLoop(_, _)
ResolveLoop(st, k) ==
    IF k > Len(st.g.hands) \/ st.ret # "ok" THEN st
    ELSE ResolveLoop(ResolveStep(st, k), k + 1)

\* the body of finish_round, below the decorator
FinishBody(g) ==
    Bind(AllDone(g, 1), LAMBDA all_hands_resolved :
    IF all_hands_resolved.raised THEN Out(g, "RecursionError")
    ELSE Bind(IF all_hands_resolved.val THEN Out(g, "True") ELSE play_dealer_hand(g),
         LAMBDA pd :
              IF pd.ret = "False" THEN handle_dead_hand(pd.g)
              ELSE IF pd.ret # "True" THEN pd
              ELSE Complete(ResolveLoop(LoopStart(pd.g), 1))))

finish_round(g) ==
    IF validate_game_state(g, "finish_round") # "ok" THEN Out(g, "GameError")
    ELSE FinishBody(g)

\* the insurance loop of play_round, at the hand of index k
RECURSIVE InsuranceLoop(_, _)
InsuranceLoop(g, k) ==
    IF k > Len(g.hands) THEN Out(g, "None")
    ELSE IF g.hands[k].insurance_bet <= 0 THEN InsuranceLoop(g, k + 1)
    ELSE Bind(handle_insurance_payout(g, k), LAMBDA p :
         IF p.ret = "RecursionError" THEN p
         ELSE InsuranceLoop(p.g, k + 1))

\* play_round after start_round returned True
PlayOn(g) ==
    Bind(IF /\ insurance_offered
            /\ g.dealer_hand.cards[1] = "A"
            /\ \E k \in 1..Len(g.hands) : g.hands[k].insurance_bet > 0
         THEN InsuranceLoop(g, 1) ELSE Out(g, "None"),
    LAMBDA ins :
         IF ins.ret = "RecursionError" THEN ins
         ELSE IF is_blackjack(ins.g.dealer_hand, 0).raised
         THEN Out(ins.g, "RecursionError")
         ELSE finish_round(ins.g))

play_round(g, bet_amount) ==
    IF validate_game_state(g, "play_round") # "ok" THEN Out(g, "GameError")
    ELSE Bind(start_round(g, bet_amount), LAMBDA sr :
         IF sr.ret \in {"GameError", "RecursionError"} THEN sr
         ELSE IF sr.ret = "False"
         THEN [handle_dead_hand(sr.g) EXCEPT !.placed = sr.placed]
         ELSE [PlayOn(sr.g) EXCEPT !.placed = sr.placed])

\* get_valid_moves, undecorated: results is the list returned, ret "list"
get_valid_moves(g, i) ==
    LET Moves(m) == [Out(g, "list") EXCEPT !.results = m]
    IN  IF g.round_state # "PLAYER_TURN" THEN Moves(<<>>)
        ELSE Bind(g.hands[i], LAMBDA hand :
             Bind(is_done(hand), LAMBDA dn :
             IF dn.raised THEN Out(g, "RecursionError")
             ELSE IF dn.val THEN Moves(<<>>)
             ELSE Bind(is_blackjack(hand, 0), LAMBDA bj :
                  IF bj.raised THEN Out(g, "RecursionError")
                  ELSE IF bj.val
                  THEN IF ~even_money_offered THEN Moves(<<>>)
                       ELSE IF g.dealer_hand.cards = <<>> THEN Out(g, "IndexError")
                       ELSE IF g.dealer_hand.cards[1] = "A" /\ ~hand.took_even_money
                       THEN Moves(<<"even_money", "keep_blackjack">>)
                       ELSE Moves(<<>>)
                  ELSE Moves(<<"hit", "stand">>
                             \o (IF can_surrender(hand) THEN <<"surrender">> ELSE <<>>)
                             \o (IF can_double(hand) /\ g.bankroll >= hand.bet
                                 THEN <<"double">> ELSE <<>>)
                             \o (IF /\ can_split(hand)
                                    /\ g.bankroll >= hand.bet
                                    /\ Len(g.hands) < max_splits + 1
                                 THEN <<"split">> ELSE <<>>)))))

\* check_hand_done: the round passes to the dealer when every hand is done
check_hand_done(g, i) ==
    Bind(is_done(g.hands[i]), LAMBDA dn :
    IF dn.raised THEN Out(g, "RecursionError")
    ELSE IF ~dn.val THEN Out(g, "False")
    ELSE Bind(AllDone(g, 1), LAMBDA ad :
         IF ad.raised THEN Out(g, "RecursionError")
         ELSE IF ad.val THEN Out([g EXCEPT !.round_state = "DEALER_TURN"], "True")
         ELSE Out(g, "True")))

\* the dispatch of execute_move: the method a move name stands for; the
\* tuples of surrender and take_even_money are reduced to their first
\* component, and a name the chain does not know leaves success False
Dispatch(g, move, i) ==
    CASE move = "hit" -> hit(g, i)
      [] move = "stand" -> Out(g, "True")
      [] move = "double" -> double_down(g, i)
      [] move = "split" -> split(g, i)
      [] move = "surrender" -> [surrender(g, i) EXCEPT !.amount = 0]
      [] move = "even_money" -> [take_even_money(g, i) EXCEPT !.amount = 0]
      [] OTHER -> Out(g, "False")

\* execute_move, undecorated
execute_move(g, move, i) ==
    IF g.round_state # "PLAYER_TURN" THEN Out(g, "False")
    ELSE Bind(is_done(g.hands[i]), LAMBDA dn :
         IF dn.raised THEN Out(g, "RecursionError")
         ELSE IF dn.val THEN Out(g, "False")
         ELSE Bind(Dispatch(g, move, i), LAMBDA s :
              IF s.ret # "True" THEN s
              ELSE Bind(check_hand_done(s.g, i), LAMBDA c :
                   IF c.ret = "RecursionError" THEN c
                   ELSE [s EXCEPT !.g = c.g])))

\* ---------------------------------------------------------- state machine
vars == <<cards, discard_pile, bankroll, hands, dealer_hand, round_state,
          stats, last, wager, sim>>

\* the orders a reshuffle can produce, needed only if a reshuffle can happen
Decks == [1..ShoeCards -> Ranks]
Shuffles ==
    IF \E n \in 0..ShoeCards :
           n * deck_penetration_den < n * (deck_penetration_den - deck_penetration_num)
    THEN Decks ELSE {<<>>}

NoWager == [placed |-> FALSE, bet |-> 0, bankroll |-> 0, hands_played |-> 0]

\* no simulation is running: the game is driven through its own methods
NoSim == [workers |-> <<>>, num_hands |-> 0, hands_per_process |-> 0,
          initial_bankroll |-> 0,
          collected |-> 0, status |-> "none", error |-> "None", combined |-> <<>>]

\* Blackjack.__init__: a shuffled shoe, one empty player hand, NOT_STARTED
Init ==
    /\ cards \in Decks
    /\ discard_pile = <<>>
    /\ bankroll = InitialBankroll
    /\ hands = <<NewHand>>
    /\ dealer_hand = NewHand
    /\ round_state = "NOT_STARTED"
    /\ stats = NewStats
    /\ last = [op |-> "init", bet |-> 0, idx |-> 0, ret |-> "None",
               results |-> <<>>, total |-> 0, amount |-> 0]
    /\ wager = NoWager
    /\ sim = NoSim

\* the object after a call that ended as o; last records the call and how it
\* ended, wager the bet last accepted by place_bet, with the bankroll and
\* hands_played of the moment it was offered
Call(o, op, bet, idx) ==
    /\ cards' = o.g.cards
    /\ discard_pile' = o.g.discard_pile
    /\ bankroll' = o.g.bankroll
    /\ hands' = o.g.hands
    /\ dealer_hand' = o.g.dealer_hand
    /\ round_state' = o.g.round_state
    /\ stats' = o.g.stats
    /\ last' = [op |-> op, bet |-> bet, idx |-> idx, ret |-> o.ret,
                results |-> o.results, total |-> o.total, amount |-> o.amount]
    /\ wager' = IF o.placed
                THEN [placed |-> TRUE, bet |-> bet, bankroll |-> bankroll,
                      hands_played |-> stats.hands_played]
                ELSE wager
    /\ UNCHANGED sim

StartRound ==
    \E b \in Bets, fresh \in Shuffles :
        \E o \in {start_round(Game(fresh), b)} : Call(o, "start_round", b, 0)

Hit ==
    \E i \in 1..Len(hands), fresh \in Shuffles :
        \E o \in {hit(Game(fresh), i)} : Call(o, "hit", 0, i)

DoubleDown ==
    \E i \in 1..Len(hands), fresh \in Shuffles :
        \E o \in {double_down(Game(fresh), i)} : Call(o, "double_down", 0, i)

Split ==
    \E i \in 1..Len(hands), fresh \in Shuffles :
        \E o \in {split(Game(fresh), i)} : Call(o, "split", 0, i)

Surrender ==
    \E i \in 1..Len(hands), fresh \in Shuffles :
        \E o \in {surrender(Game(fresh), i)} : Call(o, "surrender", 0, i)

PlaceInsurance ==
    /\ stats.insurances_taken < MaxInsuranceCalls
    /\ \E i \in 1..Len(hands), fresh \in Shuffles :
           \E o \in {place_insurance(Game(fresh), i)} : Call(o, "place_insurance", 0, i)

TakeEvenMoney ==
    \E i \in 1..Len(hands), fresh \in Shuffles :
        \E o \in {take_even_money(Game(fresh), i)} : Call(o, "take_even_money", 0, i)

PlayDealerHand ==
    \E fresh \in Shuffles :
        \E o \in {play_dealer_hand(Game(fresh))} : Call(o, "play_dealer_hand", 0, 0)

FinishRound ==
    /\ stats.hands_played < MaxHandsPlayed
    /\ \E fresh \in Shuffles :
           \E o \in {finish_round(Game(fresh))} : Call(o, "finish_round", 0, 0)

PlayRound ==
    /\ stats.hands_played < MaxHandsPlayed
    /\ \E b \in Bets, fresh \in Shuffles :
           \E o \in {play_round(Game(fresh), b)} : Call(o, "play_round", b, 0)

Next ==
    \/ StartRound
    \/ Hit
    \/ DoubleDown
    \/ Split
    \/ Surrender
    \/ PlaceInsurance
    \/ TakeEvenMoney
    \/ PlayDealerHand
    \/ FinishRound
    \/ PlayRound

Spec == Init /\ [][Next]_vars

\* ------------------------------------------- resolve_hand on drawn inputs
\* the ranks of the hands handed to resolve_hand
ResolveRanks == {"A", "9", "K"}

HandsUpTo(n) == UNION {[1..k -> ResolveRanks] : k \in 2..n}

\* a player hand and a dealer hand built by the caller, not yet resolved
InitResolve ==
    /\ cards = <<>>
    /\ discard_pile = <<>>
    /\ bankroll = InitialBankroll
    /\ \E pc \in HandsUpTo(MaxHandLen), sp \in BOOLEAN, su \in BOOLEAN, em \in BOOLEAN :
           hands = <<[NewHand EXCEPT !.cards = pc, !.bet = min_bet,
                                     !.original_bet = min_bet, !.is_split = sp,
                                     !.is_surrendered = su, !.took_even_money = em]>>
    /\ \E dc \in HandsUpTo(MaxHandLen) : dealer_hand = [NewHand EXCEPT !.cards = dc]
    /\ round_state = "DEALER_TURN"
    /\ stats = NewStats
    /\ last = [op |-> "init", bet |-> 0, idx |-> 0, ret |-> "None",
               results |-> <<>>, total |-> 0, amount |-> 0]
    /\ wager = NoWager
    /\ sim = NoSim

\* one call of resolve_hand on the player hand; ret is the GameResult
ResolveHand ==
    /\ last.op = "init"
    /\ LET r == resolve_hand(Game(<<>>), hands[1])
       IN  last' = [op |-> "resolve_hand", bet |-> hands[1].bet, idx |-> 1,
                    ret |-> IF r.raised THEN "RecursionError" ELSE r.outcome,
                    results |-> <<>>, total |-> 0, amount |-> r.payout]
    /\ UNCHANGED <<cards, discard_pile, bankroll, hands, dealer_hand,
                   round_state, stats, wager, sim>>

NextResolve == ResolveHand

SpecResolve == InitResolve /\ [][NextResolve]_vars

\* ------------------------------------------------ a round with a split
\* the ranks of the shoe of these runs: pairs are frequent
SplitRanks == {"A", "K"}

\* Blackjack.__init__ with a shoe of SplitShoeCards cards
InitSplit ==
    /\ cards \in [1..SplitShoeCards -> SplitRanks]
    /\ discard_pile = <<>>
    /\ bankroll = InitialBankroll
    /\ hands = <<NewHand>>
    /\ dealer_hand = NewHand
    /\ round_state = "NOT_STARTED"
    /\ stats = NewStats
    /\ last = [op |-> "init", bet |-> 0, idx |-> 0, ret |-> "None",
               results |-> <<>>, total |-> 0, amount |-> 0]
    /\ wager = NoWager
    /\ sim = NoSim

NextSplit ==
    \/ StartRound
    \/ PlayDealerHand
    \/ Split
    \/ Hit

SpecSplit == InitSplit /\ [][NextSplit]_vars

\* ------------------------------------------- start_round at the bet limits
\* the two limits of a bet and the nearest even amounts outside them
LimitBets == {min_bet - 2, min_bet, max_bet, max_bet + 2}

\* Blackjack.__init__ with a bankroll that affords max_bet
InitBets ==
    /\ cards \in [1..ShoeCards -> SplitRanks]
    /\ discard_pile = <<>>
    /\ bankroll = HighBankroll
    /\ hands = <<NewHand>>
    /\ dealer_hand = NewHand
    /\ round_state = "NOT_STARTED"
    /\ stats = NewStats
    /\ last = [op |-> "init", bet |-> 0, idx |-> 0, ret |-> "None",
               results |-> <<>>, total |-> 0, amount |-> 0]
    /\ wager = NoWager
    /\ sim = NoSim

StartRoundAtLimits ==
    \E b \in LimitBets, fresh \in Shuffles :
        \E o \in {start_round(Game(fresh), b)} : Call(o, "start_round", b, 0)

NextBets ==
    \/ StartRoundAtLimits
    \/ PlayDealerHand
    \/ FinishRound

SpecBets == InitBets /\ [][NextBets]_vars

\* ------------------------------------------------ the shoe drawn on its own
\* Deck.__init__: the shuffled shoe, nothing discarded
InitDraw ==
    /\ cards \in Decks
    /\ discard_pile = <<>>
    /\ bankroll = InitialBankroll
    /\ hands = <<NewHand>>
    /\ dealer_hand = NewHand
    /\ round_state = "NOT_STARTED"
    /\ stats = NewStats
    /\ last = [op |-> "init", bet |-> 0, idx |-> 0, ret |-> "None",
               results |-> <<>>, total |-> 0, amount |-> 0]
    /\ wager = NoWager
    /\ sim = NoSim

\* one call of Deck.draw; ret is the rank of the card returned, or None
Draw ==
    \E fresh \in Shuffles :
        \E d \in {draw(Game(fresh))} :
            /\ cards' = d.g.cards
            /\ discard_pile' = d.g.discard_pile
            /\ last' = [op |-> "draw", bet |-> 0, idx |-> 0, ret |-> d.card,
                        results |-> <<>>, total |-> 0, amount |-> 0]
            /\ UNCHANGED <<bankroll, hands, dealer_hand, round_state, stats, wager,
                           sim>>

NextDraw == Draw

SpecDraw == InitDraw /\ [][NextDraw]_vars

\* the orders random.shuffle can leave the cards in when this draw calls
\* reset; a draw that does not call it shuffles nothing
ShufflesAt(num) ==
    IF cards = <<>> /\ ReshufflesAt(Game(<<>>), num) THEN Decks ELSE {<<>>}

\* one call of Deck.draw on a shoe whose rules carry any penetration from 0
\* to 1; idx keeps the numerator, the same for every draw of the shoe
DrawAtPenetration ==
    \E num \in 0..deck_penetration_den : \E fresh \in ShufflesAt(num) :
        /\ last.op = "init" \/ last.idx = num
        /\ \E d \in {draw_at(Game(fresh), num)} :
               /\ cards' = d.g.cards
               /\ discard_pile' = d.g.discard_pile
               /\ last' = [op |-> "draw", bet |-> 0, idx |-> num, ret |-> d.card,
                           results |-> <<>>, total |-> 0, amount |-> 0]
               /\ UNCHANGED <<bankroll, hands, dealer_hand, round_state, stats,
                              wager, sim>>

NextPenetration == DrawAtPenetration

SpecPenetration == InitDraw /\ [][NextPenetration]_vars

\* ------------------------------------------------ a round in PlayerTurn
\* start_round never leaves a round in PLAYER_TURN (see C1), so the round the
\* player acts in is built by the caller, as InitResolve builds its hands: the
\* round deal_initial_cards and place_bet are written to produce, the wager
\* min_bet on the hand, two cards with the dealer, two or more with the player
\* (who may have hit), the cards of the two hands on the discard pile.
TurnShoeCards == 2

TurnHands == UNION {[1..k -> SplitRanks] : k \in 2..MaxHandLen}

\* nothing left, one unit short of half the wager, half the wager, plenty
TurnBankrolls == {0, min_bet \div 2 - 1, min_bet \div 2, InitialBankroll}

TurnMoves == {"hit", "stand", "double", "split", "surrender", "even_money",
              "keep_blackjack"}

InitTurn ==
    /\ cards \in UNION {[1..n -> SplitRanks] : n \in 0..TurnShoeCards}
    /\ bankroll \in TurnBankrolls
    /\ \E pc \in TurnHands, dc \in [1..2 -> SplitRanks] :
           /\ hands = <<[NewHand EXCEPT !.cards = pc, !.bet = min_bet,
                                        !.original_bet = min_bet]>>
           /\ dealer_hand = [NewHand EXCEPT !.cards = dc]
           /\ discard_pile = pc \o dc
    /\ round_state = "PLAYER_TURN"
    /\ stats = [NewStats EXCEPT !.original_wagers = min_bet]
    /\ last = [op |-> "init", bet |-> 0, idx |-> 0, ret |-> "None",
               results |-> <<>>, total |-> 0, amount |-> 0]
    /\ wager = NoWager
    /\ sim = NoSim

GetValidMoves ==
    \E i \in 1..Len(hands), fresh \in Shuffles :
        \E o \in {get_valid_moves(Game(fresh), i)} : Call(o, "get_valid_moves", 0, i)

\* the name last.op gives a call of execute_move
ExecOp(move) == "execute_move " \o move

ExecuteMove ==
    \E move \in TurnMoves, i \in 1..Len(hands), fresh \in Shuffles :
        \E o \in {execute_move(Game(fresh), move, i)} : Call(o, ExecOp(move), 0, i)

NextTurn ==
    \/ GetValidMoves
    \/ ExecuteMove
    \/ Hit

SpecTurn == InitTurn /\ [][NextTurn]_vars

\* every player action, called directly or through execute_move, on the
\* rounds of InitTurn
NextActs ==
    \/ Hit
    \/ DoubleDown
    \/ Split
    \/ Surrender
    \/ TakeEvenMoney
    \/ ExecuteMove

SpecActs == InitTurn /\ [][NextActs]_vars

\* every call that moves the bankroll, on the rounds of InitTurn
NextBankroll ==
    \/ StartRound
    \/ Hit
    \/ DoubleDown
    \/ Split
    \/ Surrender
    \/ PlaceInsurance
    \/ TakeEvenMoney
    \/ FinishRound

SpecBankroll == InitTurn /\ [][NextBankroll]_vars

\* insurance offered and the round settled, from the same rounds
NextInsure ==
    \/ PlaceInsurance
    \/ FinishRound

SpecInsure == InitTurn /\ [][NextInsure]_vars

\* ------------------------------------------- finish_round on played hands
\* the round as the player's moves leave it to finish_round: a hand of two
\* cards or more, doubled or split from aces or neither, a dealer hand of
\* two cards or more (a play_dealer_hand cut short by an empty shoe leaves
\* more than two), built by the caller as InitResolve builds its hands
InitFinish ==
    /\ cards \in UNION {[1..n -> SplitRanks] : n \in 0..TurnShoeCards}
    /\ bankroll = InitialBankroll
    /\ \E pc \in TurnHands, dc \in TurnHands, dbl \in BOOLEAN, sa \in BOOLEAN :
           /\ hands = <<[NewHand EXCEPT !.cards = pc,
                                        !.bet = IF dbl THEN 2 * min_bet ELSE min_bet,
                                        !.original_bet = min_bet,
                                        !.is_doubled = dbl,
                                        !.is_split = sa,
                                        !.split_from_aces = sa]>>
           /\ dealer_hand = [NewHand EXCEPT !.cards = dc]
           /\ discard_pile = pc \o dc
    /\ round_state = "DEALER_TURN"
    /\ stats = [NewStats EXCEPT !.original_wagers = min_bet]
    /\ last = [op |-> "init", bet |-> 0, idx |-> 0, ret |-> "None",
               results |-> <<>>, total |-> 0, amount |-> 0]
    /\ wager = NoWager
    /\ sim = NoSim

NextFinish == FinishRound

SpecFinish == InitFinish /\ [][NextFinish]_vars

\* ------------------------------------------------- what the claims speak of
\* natural blackjack: 2 cards, total 21, not split, even money not taken
Natural(h) ==
    Len(h.cards) = 2 /\ HandTotal(h.cards) = 21 /\ ~h.is_split /\ ~h.took_even_money

\* a hand that takes no further player action
Settled(h) ==
    \/ HandTotal(h.cards) > 21
    \/ Natural(h)
    \/ h.is_surrendered
    \/ h.took_even_money
    \/ (h.is_doubled /\ Len(h.cards) > 2)
    \/ (h.split_from_aces /\ Len(h.cards) > 1)

\* the dealer must draw: below 17, or a soft 17
DealerMustDraw(d) ==
    HandTotal(d.cards) < 17 \/ (HandTotal(d.cards) = 17 /\ is_soft(d))

\* the last call was a start_round that neither refused the bet nor ran out
\* of cards: the round it started is the one in progress
Dealt == last.op = "start_round" /\ last.ret \notin {"GameError", "False"}

\* the outcomes resolve_hand can report
Outcomes == {"win", "lose", "push", "blackjack", "surrender"}

\* a call of start_round or play_round that nothing entitles to be refused
Acceptable(b) ==
    /\ round_state = "NOT_STARTED"
    /\ b >= min_bet /\ b <= max_bet /\ b <= bankroll
    /\ (cards # <<>> \/ discard_pile # <<>>)

\* the outcome and payout the payout rules give a hand against a dealer hand
Payout(h, d) ==
    LET pv == HandTotal(h.cards)
        dv == HandTotal(d.cards)
        pn == Natural(h) /\ ~h.is_split
        dn == Natural(d)
        R(o, p) == [outcome |-> o, payout |-> p]
    IN  IF pv > 21 THEN R("lose", 0)
        ELSE IF dv > 21 THEN R("win", 2 * h.bet)
        ELSE IF pn /\ ~dn
        THEN R("blackjack", (h.bet * (blackjack_payout_den + blackjack_payout_num))
                                \div blackjack_payout_den)
        ELSE IF dn /\ ~pn THEN R("lose", 0)
        ELSE IF pn /\ dn THEN R("push", h.bet)
        ELSE IF pv > dv THEN R("win", 2 * h.bet)
        ELSE IF pv = dv THEN R("push", h.bet)
        ELSE R("lose", 0)

\* ---------------------------------------------------------------- claims
\* C1: a start_round(b) that is neither rejected nor starved of cards returns
\* success, and then the bankroll is its prior value minus b, the player has
\* exactly one hand of 2 cards whose bet and original_bet are b, the dealer
\* hand holds 2 cards and the round state is PlayerTurn.
C1_StartRoundDeals ==
    (last.op = "start_round" /\ last.ret \notin {"GameError", "False"})
        => /\ last.ret = "True"
           /\ bankroll = wager.bankroll - last.bet
           /\ Len(hands) = 1
           /\ Len(hands[1].cards) = 2
           /\ hands[1].bet = last.bet
           /\ hands[1].original_bet = last.bet
           /\ Len(dealer_hand.cards) = 2
           /\ round_state = "PLAYER_TURN"

\* C2: resolve_hand on a non-surrendered hand returns the first matching case
\* of the payout rules: bust Lose 0, dealer bust Win 2 x bet, unsplit natural
\* against no natural Blackjack bet x (1 + blackjack_payout), dealer natural
\* Lose 0, both natural Push bet, else the comparison of the totals.
C2_ResolvePrecedence ==
    (last.op = "resolve_hand" /\ ~hands[1].is_surrendered)
        => /\ last.ret = Payout(hands[1], dealer_hand).outcome
           /\ last.amount = Payout(hands[1], dealer_hand).payout

\* C3: the unsplit 2-card hand [A,K] against the dealer hand [A,9] resolves
\* to Push with a payout equal to the hand's bet.
C3_AceKingAgainstAceNine ==
    (/\ last.op = "resolve_hand"
     /\ hands[1].cards = <<"A", "K">>
     /\ ~hands[1].is_split /\ ~hands[1].is_surrendered /\ ~hands[1].took_even_money
     /\ dealer_hand.cards = <<"A", "9">>)
        => (last.ret = "push" /\ last.amount = hands[1].bet)

\* C4: in a round started with start_round(b), once the player stands
\* finish_round returns the round's result, and when the player's total is
\* not a bust and the dealer has drawn to a bust, the result is Win with
\* payout 2 x b and the bankroll ends b above its value before start_round.
C4_StandAgainstDealerBust ==
    [][(Dealt /\ last'.op = "finish_round")
          => /\ last'.ret = "RoundResult"
             /\ (HandTotal(hands'[1].cards) <= 21 /\ HandTotal(dealer_hand'.cards) > 21)
                    => /\ last'.results = <<[outcome |-> "win", payout |-> 2 * wager.bet]>>
                       /\ bankroll' = wager.bankroll + wager.bet]_vars

\* C5: after start_round(b), double_down on the 2-card hand, with b left in
\* the bankroll and a card left in the shoe, succeeds: it debits the bankroll
\* by b more, makes the hand's bet 2 x b, sets is_doubled and leaves the hand
\* with exactly 3 cards; and a hit on a doubled hand of 3 cards fails.
C5_DoubleDown ==
    [][/\ (/\ Dealt
           /\ last'.op = "double_down"
           /\ can_double(hands[1])
           /\ bankroll >= wager.bet
           /\ cards # <<>>)
          => /\ last'.ret = "True"
             /\ bankroll' = bankroll - wager.bet
             /\ hands'[1].bet = 2 * wager.bet
             /\ hands'[1].is_doubled
             /\ Len(hands'[1].cards) = 3
       /\ (/\ last'.op = "hit"
           /\ hands[last'.idx].is_doubled
           /\ Len(hands[last'.idx].cards) = 3)
          => (last'.ret = "False" /\ hands' = hands)]_vars

\* C6: a surrender that marks the hand surrendered returns half of the bet
\* placed on the hand to the bankroll at once, and a finish_round on a round
\* whose hands are all surrendered leaves the bankroll as it is.
C6_SurrenderSettledOnce ==
    [][/\ (/\ wager.placed
           /\ last'.op = "surrender"
           /\ ~hands[last'.idx].is_surrendered
           /\ hands'[last'.idx].is_surrendered)
          => /\ last'.ret = "True"
             /\ bankroll' = bankroll + (wager.bet \div 2)
       /\ (/\ last'.op = "finish_round"
           /\ \A k \in 1..Len(hands) : hands[k].is_surrendered)
          => bankroll' = bankroll]_vars

\* C7: from the bet of start_round on, hands_played has grown by one for
\* every hand settled early by surrender or even money, and by the number of
\* player hands once the round is Complete.
C7_HandsPlayedPerHand ==
    wager.placed
        => stats.hands_played - wager.hands_played
               = IF round_state = "COMPLETE" THEN Len(hands)
                 ELSE Cardinality({k \in 1..Len(hands) :
                                      hands[k].is_surrendered \/ hands[k].took_even_money})

\* C8: take_even_money returns success only on a natural blackjack against a
\* dealer ace not yet paid even money, and in a round just dealt it does
\* succeed there, credits 2 x the bet on the hand and sets took_even_money; on
\* a hand already paid it fails, and finish_round adds no result, no payout
\* and no hands_played for a hand that took even money.
C8_EvenMoney ==
    [][/\ (last'.op = "take_even_money" /\ last'.ret = "True")
          => /\ Natural(hands[last'.idx])
             /\ dealer_hand.cards[1] = "A"
             /\ hands'[last'.idx].took_even_money
       /\ (/\ Dealt
           /\ last'.op = "take_even_money"
           /\ Natural(hands[last'.idx])
           /\ dealer_hand.cards[1] = "A")
          => /\ last'.ret = "True"
             /\ bankroll' = bankroll + 2 * wager.bet
             /\ hands'[last'.idx].took_even_money
       /\ (last'.op = "take_even_money" /\ hands[last'.idx].took_even_money)
          => (last'.ret = "False" /\ bankroll' = bankroll)
       /\ (/\ last'.op = "finish_round"
           /\ \A k \in 1..Len(hands) : hands[k].took_even_money)
          => /\ bankroll' = bankroll
             /\ stats'.hands_played = stats.hands_played
             /\ last'.results = <<>>]_vars

\* C9: a finish_round of a round in progress in which the dealer must draw
\* and the shoe is empty does not raise: it returns a RoundResult, the round
\* is Complete, every hand that is not done is reported Push with the amount
\* wagered on it, every done hand has an outcome, and the payouts reported
\* are what the bankroll receives.
C9_DeadHandInFinishRound ==
    [][(/\ last'.op = "finish_round"
        /\ wager.placed
        /\ round_state \notin {"NOT_STARTED", "COMPLETE"}
        /\ cards = <<>>
        /\ DealerMustDraw(dealer_hand)
        /\ \E k \in 1..Len(hands) : ~Settled(hands[k]))
          => /\ last'.ret = "RoundResult"
             /\ round_state' = "COMPLETE"
             /\ Len(last'.results) = Len(hands)
             /\ \A k \in 1..Len(hands) :
                    IF Settled(hands[k])
                    THEN last'.results[k].outcome \in Outcomes
                    ELSE last'.results[k] = [outcome |-> "push", payout |-> wager.bet]
             /\ (Len(hands) = 1 /\ ~Settled(hands[1]))
                    => bankroll' = bankroll + wager.bet]_vars

\* C10: a play_round(b) that nothing entitles to be refused, on a shoe too
\* short for the four cards of the initial deal, never leaves the round in
\* PlayerTurn and returns the wager: the bankroll is what it was before.
C10_DrawFailsInInitialDeal ==
    [][(/\ last'.op = "play_round"
        /\ Acceptable(last'.bet)
        /\ Len(cards) < 4)
          => /\ round_state' # "PLAYER_TURN"
             /\ last'.ret = "RoundResult"
             /\ bankroll' = bankroll]_vars

\* C11: in a round in progress, split on a pair of aces, with the bet left in
\* the bankroll and two cards left in the shoe, succeeds and leaves two hands
\* of exactly 2 cards, both split_from_aces and done; and a hit on a 2-card
\* hand split from aces fails and adds no card.
C11_SplitAces ==
    [][/\ (/\ last'.op = "split"
           /\ wager.placed /\ round_state # "COMPLETE"
           /\ Len(hands) < max_splits + 1
           /\ can_split(hands[last'.idx])
           /\ hands[last'.idx].cards[1] = "A"
           /\ bankroll >= wager.bet
           /\ Len(cards) >= 2)
          => /\ last'.ret = "True"
             /\ Len(hands') = Len(hands) + 1
             /\ \A k \in {last'.idx, last'.idx + 1} :
                    /\ Len(hands'[k].cards) = 2
                    /\ hands'[k].split_from_aces
                    /\ Settled(hands'[k])
       /\ (/\ last'.op = "hit"
           /\ hands[last'.idx].split_from_aces
           /\ Len(hands[last'.idx].cards) = 2)
          => (last'.ret = "False" /\ hands' = hands)]_vars

\* C12: a split(i) that returns success debits the bankroll by the hand's
\* original bet, leaves hand i with its first card and the first card drawn,
\* inserts at i+1 a hand with the former second card, the second card drawn
\* and the same bet, flags both is_split (split_from_aces for aces) and
\* leaves the other hands as they were; and in a round in progress a split
\* of a pair, with the bet in the bankroll and two cards in the shoe, does
\* return success.
C12_SplitEffects ==
    [][/\ (/\ last'.op = "split"
           /\ wager.placed /\ round_state # "COMPLETE"
           /\ Len(hands) < max_splits + 1
           /\ can_split(hands[last'.idx])
           /\ bankroll >= wager.bet
           /\ Len(cards) >= 2)
          => last'.ret = "True"
       /\ (last'.op = "split" /\ last'.ret = "True")
          => LET i == last'.idx
                 h == hands[i]
             IN  /\ bankroll' = bankroll - h.original_bet
                 /\ Len(hands') = Len(hands) + 1
                 /\ hands'[i].cards = <<h.cards[1], cards[Len(cards)]>>
                 /\ hands'[i + 1].cards = <<h.cards[2], cards[Len(cards) - 1]>>
                 /\ hands'[i + 1].bet = h.bet
                 /\ hands'[i].is_split /\ hands'[i + 1].is_split
                 /\ (h.cards[1] = "A")
                        => (hands'[i].split_from_aces /\ hands'[i + 1].split_from_aces)
                 /\ \A k \in 1..Len(hands) :
                        k # i => hands'[IF k < i THEN k ELSE k + 1] = hands[k]]_vars

\* C13: a split that returns failure has changed nothing (hands, bankroll,
\* statistics and shoe are as before), and a split that passes every test
\* of the call but finds fewer than two cards in the shoe returns failure.
C13_SplitWithoutCards ==
    [][/\ (last'.op = "split" /\ last'.ret = "False")
          => UNCHANGED <<hands, bankroll, stats, cards, discard_pile>>
       /\ (/\ last'.op = "split"
           /\ round_state \notin {"NOT_STARTED", "COMPLETE"}
           /\ bankroll > 0
           /\ Len(hands) < max_splits + 1
           /\ can_split(hands[last'.idx])
           /\ bankroll >= hands[last'.idx].original_bet
           /\ Len(cards) < 2)
          => last'.ret = "False"]_vars

\* C14: a double_down that does not succeed leaves the bankroll, the hands
\* (bet, is_doubled and cards) and the statistics as they were.
C14_DoubleDownAllOrNothing ==
    [][(last'.op = "double_down" /\ last'.ret # "True")
          => UNCHANGED <<bankroll, hands, stats>>]_vars

\* C15: a start_round with a bet within the limits and the bankroll is not
\* refused when the round is NotStarted or Complete, and is refused with an
\* error when the round is in InitialDeal, PlayerTurn or DealerTurn.
C15_StartRoundStates ==
    [][(/\ last'.op = "start_round"
        /\ last'.bet >= min_bet /\ last'.bet <= max_bet /\ last'.bet <= bankroll)
          => IF round_state \in {"NOT_STARTED", "COMPLETE"}
             THEN last'.ret # "GameError"
             ELSE last'.ret = "GameError"]_vars

\* C17: hit, double_down, split, surrender, place_insurance and
\* take_even_money called while the round is NotStarted, DealerTurn or
\* Complete end in an error and leave bankroll, hands, shoe and statistics
\* as they were.
C17_PlayerActionsOnlyInPlayerTurn ==
    [][(/\ last'.op \in {"hit", "double_down", "split", "surrender",
                         "place_insurance", "take_even_money"}
        /\ round_state \in {"NOT_STARTED", "DEALER_TURN", "COMPLETE"})
          => /\ last'.ret = "GameError"
             /\ UNCHANGED <<bankroll, hands, cards, discard_pile, stats>>]_vars

\* C18: finish_round called in PlayerTurn or DealerTurn, whatever the
\* bankroll, returns a RoundResult and leaves the round Complete.
C18_FinishRoundNeverRaises ==
    [][(last'.op = "finish_round" /\ round_state \in {"PLAYER_TURN", "DEALER_TURN"})
          => (last'.ret = "RoundResult" /\ round_state' = "COMPLETE")]_vars

\* C16: a start_round whose bet is below min_bet, above max_bet or above
\* the bankroll, or that is called in InitialDeal, PlayerTurn or DealerTurn,
\* ends in an error; a start_round that ends in an error leaves bankroll,
\* hands, dealer hand, shoe, statistics and round state as they were; and a
\* bet equal to min_bet or to max_bet that the bankroll affords is not
\* refused in NotStarted.
C16_RejectedStartRound ==
    [][(last'.op = "start_round")
          => /\ (\/ last'.bet < min_bet
                 \/ last'.bet > max_bet
                 \/ last'.bet > bankroll
                 \/ round_state \in {"INITIAL_DEAL", "PLAYER_TURN", "DEALER_TURN"})
                    => last'.ret = "GameError"
             /\ (last'.ret = "GameError")
                    => UNCHANGED <<bankroll, hands, dealer_hand, cards, discard_pile,
                                   stats, round_state>>
             /\ (/\ last'.bet \in {min_bet, max_bet}
                 /\ last'.bet <= bankroll
                 /\ round_state = "NOT_STARTED")
                    => last'.ret # "GameError"]_vars

\* a bet of max_bet refused for lack of funds, after an earlier bet was taken
C16_Witness ==
    /\ last.op = "start_round"
    /\ last.ret = "GameError"
    /\ last.bet = max_bet
    /\ round_state = "NOT_STARTED"
    /\ wager.placed
    /\ bankroll < max_bet

\* C19: in every state the game reaches, the undealt cards and the discard
\* pile together hold as many cards as the shoe was built with.
C19_ShoeSize == Len(cards) + Len(discard_pile) = ShoeCards

\* a draw has just failed on a shoe whose cards are all on the discard pile
C19_Witness ==
    /\ last.op = "play_dealer_hand"
    /\ last.ret = "False"
    /\ cards = <<>>
    /\ discard_pile # <<>>

\* C20: draw on a non-empty undealt list removes its last card, appends it
\* to the discard pile and returns it; on an empty list it reshuffles and
\* draws if the discard pile is smaller than total * (1 - penetration), and
\* otherwise returns nothing and leaves the shoe as it was.
C20_Draw ==
    [][(last'.op = "draw")
          => IF cards # <<>>
             THEN /\ last'.ret = cards[Len(cards)]
                  /\ cards' = SubSeq(cards, 1, Len(cards) - 1)
                  /\ discard_pile' = Append(discard_pile, cards[Len(cards)])
             ELSE IF Len(discard_pile) * deck_penetration_den
                         < ShoeCards * (deck_penetration_den - deck_penetration_num)
             THEN /\ last'.ret # "None"
                  /\ Len(cards') = ShoeCards - 1
                  /\ discard_pile' = <<last'.ret>>
             ELSE /\ last'.ret = "None"
                  /\ UNCHANGED <<cards, discard_pile>>]_vars

\* a draw was asked of a shoe drawn to its last card, and returned nothing
C20_Witness ==
    /\ last.op = "draw"
    /\ last.ret = "None"
    /\ cards = <<>>
    /\ Len(discard_pile) = ShoeCards

\* the place of a round state in the order RoundState declares
StateRank(s) ==
    CASE s = "NOT_STARTED" -> 0
      [] s = "INITIAL_DEAL" -> 1
      [] s = "PLAYER_TURN" -> 2
      [] s = "DEALER_TURN" -> 3
      [] s = "COMPLETE" -> 4

\* C21: within one round (any call but the start_round or play_round that
\* opens the next one) the round state never moves to an earlier state of
\* NotStarted, InitialDeal, PlayerTurn, DealerTurn, Complete, and PlayerTurn
\* is entered only when the player's first hand and the dealer hold two
\* cards each.
C21_RoundStateAdvances ==
    [][/\ last'.op \notin {"start_round", "play_round"}
          => StateRank(round_state') >= StateRank(round_state)
       /\ (round_state' = "PLAYER_TURN" /\ round_state # "PLAYER_TURN")
          => (Len(hands'[1].cards) = 2 /\ Len(dealer_hand'.cards) = 2)]_vars

\* C22: play_dealer_hand always returns, reporting success or failure; when
\* it reports success the dealer's value is at least 17 and not a soft 17;
\* it reports failure only when the dealer still had to draw and the shoe
\* had no card to give.
C22_DealerDrawsToSeventeen ==
    [][last'.op = "play_dealer_hand"
          => /\ last'.ret \in {"True", "False"}
             /\ last'.ret = "True" => ~DealerMustDraw(dealer_hand')
             /\ last'.ret = "False"
                   => (DealerMustDraw(dealer_hand') /\ cards' = <<>>)]_vars

\* the hands insurance was placed on
Insured(hs) == {k \in 1..Len(hs) : hs[k].insurance_bet > 0}

\* what the insurance bets of hs are owed against the dealer hand d
RECURSIVE InsuranceDue(_, _)
InsuranceDue(hs, d) ==
    IF hs = <<>> THEN 0
    ELSE (IF Natural(d) THEN hs[1].insurance_bet * (1 + insurance_payout) ELSE 0)
         + InsuranceDue(Tail(hs), d)

\* the payouts a RoundResult reports, added up
RECURSIVE PaidOut(_)
PaidOut(rs) == IF rs = <<>> THEN 0 ELSE rs[1].payout + PaidOut(Tail(rs))

\* C23: a finish_round of a round with an insured hand returns with the
\* round Complete and the insurance settled once: against a dealer natural
\* every insured hand is counted won and the bankroll receives, beside the
\* payouts of the hands, insurance_bet * (1 + insurance_payout) for each;
\* otherwise no insurance is won and nothing is credited for it.
C23_InsuranceSettledOnce ==
    [][(last'.op = "finish_round" /\ Insured(hands) # {})
          => /\ last'.ret = "RoundResult"
             /\ round_state' = "COMPLETE"
             /\ bankroll' = bankroll + PaidOut(last'.results)
                                     + InsuranceDue(hands, dealer_hand')
             /\ stats'.insurances_won =
                    stats.insurances_won
                    + (IF Natural(dealer_hand') THEN Cardinality(Insured(hands)) ELSE 0)]_vars

\* C24: place_insurance succeeds only if insurance is offered, the dealer's
\* upcard is an ace and the bankroll holds at least half the hand's original
\* bet; when it succeeds the bankroll goes down by exactly that half and the
\* hand's insurance amount is set to it, the hand otherwise as it was; when
\* it does not succeed the bankroll, the hands, the dealer's hand, the shoe,
\* the statistics and the round state are as they were.
C24_PlaceInsurance ==
    [][last'.op = "place_insurance"
          => LET hand == hands[last'.idx]
                 half == hand.original_bet \div 2
             IN  IF last'.ret = "True"
                 THEN /\ insurance_offered
                      /\ dealer_hand.cards # <<>> /\ dealer_hand.cards[1] = "A"
                      /\ bankroll >= half
                      /\ bankroll' = bankroll - half
                      /\ hands' = [hands EXCEPT ![last'.idx].insurance_bet = half]
                 ELSE UNCHANGED <<bankroll, hands, dealer_hand, cards,
                                  discard_pile, stats, round_state>>]_vars

\* insurance placed with a bankroll of exactly half the wager
C24_Witness ==
    /\ last.op = "place_insurance" /\ last.ret = "True"
    /\ hands[last.idx].insurance_bet = min_bet \div 2
    /\ bankroll = 0

\* the moves of a list, as a set
Listed(ms) == {ms[k] : k \in 1..Len(ms)}

\* C25: in PlayerTurn, with even money offered, get_valid_moves asked about
\* an unsplit natural that has not taken even money, against a dealer
\* showing an ace, returns exactly even_money and keep_blackjack.
C25_EvenMoneyOffered ==
    [][(/\ last'.op = "get_valid_moves"
        /\ round_state = "PLAYER_TURN"
        /\ even_money_offered
        /\ Natural(hands[last'.idx])
        /\ dealer_hand.cards[1] = "A")
          => /\ last'.ret = "list"
             /\ Listed(last'.results) = {"even_money", "keep_blackjack"}]_vars

\* the moves C26 speaks of
ListedMoves == {"hit", "double", "split", "surrender"}

\* C26: in PlayerTurn, while the shoe has the cards a move may need, a move
\* among hit, double, split and surrender passed to execute_move succeeds
\* exactly if get_valid_moves lists it for the hand, and when it is listed
\* execute_move returns rather than raises.
C26_ListedMovesExecute ==
    [][\A move \in ListedMoves :
          (/\ last'.op = ExecOp(move)
           /\ round_state = "PLAYER_TURN"
           /\ Len(cards) >= 2)
             => \E o \in {get_valid_moves(Game(<<>>), last'.idx)} :
                    LET listed == o.ret = "list" /\ move \in Listed(o.results)
                    IN  /\ listed <=> last'.ret = "True"
                        /\ listed => last'.ret \in {"True", "False"}]_vars

\* C27: in PlayerTurn a hit on a hand that is done, or with the shoe empty,
\* returns False and leaves the hands, the bankroll and the statistics as
\* they were; any other hit appends exactly one card, the one drawn, to the
\* hand, leaves the other fields of the hand alone, and returns True.
C27_Hit ==
    [][(last'.op = "hit" /\ round_state = "PLAYER_TURN")
          => IF Settled(hands[last'.idx]) \/ cards = <<>>
             THEN /\ last'.ret = "False"
                  /\ UNCHANGED <<hands, bankroll, stats>>
             ELSE /\ last'.ret = "True"
                  /\ hands' = [hands EXCEPT ![last'.idx].cards =
                                                Append(@, cards[Len(cards)])]]_vars

base_bet == 10

SimWorkers == 2
MaxNumHands == 4

\* basic_strategy.Action, the answers of the strategy
Actions == {"HIT", "STAND", "SPLIT", "SURRENDER", "DOUBLE", "DOUBLE_OR_HIT",
            "DOUBLE_OR_STAND", "SPLIT_OR_HIT", "SURRENDER_OR_HIT"}

\* the shoes a new Blackjack can be shuffled into
SimDecks == [1..ShoeCards -> SplitRanks]

\* Blackjack("Simulator", bank, rules) with the shoe shuffled as shoe
NewGame(shoe, bank) ==
    [cards |-> shoe, discard_pile |-> <<>>, bankroll |-> bank,
     hands |-> <<NewHand>>, dealer_hand |-> NewHand,
     round_state |-> "NOT_STARTED", stats |-> NewStats, fresh |-> <<>>]

NewMetrics ==
    [blackjack |-> 0, win |-> 0, loss |-> 0, push |-> 0, surrender |-> 0,
     double |-> 0, split |-> 0]

NewResults ==
    [hands_played |-> 0, total_wagered |-> 0, total_won |-> 0, total_lost |-> 0,
     blackjacks |-> 0, wins |-> 0, losses |-> 0, pushes |-> 0, surrenders |-> 0,
     doubles |-> 0, splits |-> 0]

\* _convert_action_to_move, given the set of moves get_valid_moves listed
_convert_action_to_move(action, valid_moves) ==
    CASE action = "STAND" -> "stand"
      [] action = "HIT" -> "hit"
      [] action = "SPLIT" /\ "split" \in valid_moves -> "split"
      [] action = "DOUBLE_OR_HIT" ->
             IF "double" \in valid_moves THEN "double" ELSE "hit"
      [] action = "DOUBLE_OR_STAND" ->
             IF "double" \in valid_moves THEN "double" ELSE "stand"
      [] action = "SPLIT_OR_HIT" ->
             IF "split" \in valid_moves THEN "split" ELSE "hit"
      [] action \in {"SURRENDER_OR_HIT", "SURRENDER"} ->
             IF "surrender" \in valid_moves THEN "surrender" ELSE "hit"
      [] action = "DOUBLE" ->
             IF "double" \in valid_moves THEN "double" ELSE "hit"
      [] OTHER -> "hit"

\* the inner loop of play_hand on the hand of index hand_index; st carries the
\* game, how the call stands ("ok" or the exception raised), the metrics and
\* the indices of the surrendered hands; the strategy answers action
RECURSIVE PlayCurrentHand(_, _, _)
PlayCurrentHand(st, hand_index, action) ==
    Bind(is_done(st.g.hands[hand_index]), LAMBDA dn :
    IF dn.raised THEN [st EXCEPT !.ret = "RecursionError"]
    ELSE IF dn.val THEN st
    ELSE Bind(get_valid_moves(st.g, hand_index), LAMBDA vm :
         IF vm.ret # "list" THEN [st EXCEPT !.ret = vm.ret]
         ELSE Bind(_convert_action_to_move(action,
                       {vm.results[k] : k \in 1..Len(vm.results)}),
              LAMBDA move :
              Bind(execute_move(st.g, move, hand_index), LAMBDA ex :
              IF ex.ret \notin {"True", "False"}
              THEN [st EXCEPT !.g = ex.g, !.ret = ex.ret]
              ELSE IF ex.ret = "False" THEN [st EXCEPT !.g = ex.g]
              ELSE IF move = "surrender"
              THEN [st EXCEPT !.g = ex.g,
                              !.metrics.surrender = @ + 1,
                              !.surrendered = @ \cup {hand_index}]
              ELSE Bind([st EXCEPT !.g = ex.g,
                                   !.metrics.split = @ + (IF move = "split" THEN 1 ELSE 0),
                                   !.metrics.double = @ + (IF move = "double" THEN 1 ELSE 0)],
                   LAMBDA st1 :
                        IF move = "stand" THEN st1
                        ELSE PlayCurrentHand(st1, hand_index, action))))))

\* the outer loop of play_hand, from the hand of index hand_index
RECURSIVE PlayHands(_, _, _)
PlayHands(st, hand_index, action) ==
    IF st.ret # "ok" \/ hand_index > Len(st.g.hands) THEN st
    ELSE Bind(PlayCurrentHand(st, hand_index, action), LAMBDA st1 :
              PlayHands(st1, hand_index + 1, action))

\* the metrics after the results from index k on are counted
RECURSIVE Tally(_, _, _, _)
Tally(results, surrendered, metrics, k) ==
    IF k > Len(results) THEN metrics
    ELSE Tally(results, surrendered,
               IF k \in surrendered THEN metrics
               ELSE CASE results[k].outcome = "blackjack" ->
                             [metrics EXCEPT !.blackjack = @ + 1, !.win = @ + 1]
                      [] results[k].outcome = "win" -> [metrics EXCEPT !.win = @ + 1]
                      [] results[k].outcome = "lose" -> [metrics EXCEPT !.loss = @ + 1]
                      [] results[k].outcome = "push" -> [metrics EXCEPT !.push = @ + 1]
                      [] OTHER -> metrics,
               k + 1)

\* play_hand: ret is "ok" when it returns, else the exception that leaves it
play_hand(g, action) ==
    LET Played(g1, ret, metrics) == [g |-> g1, ret |-> ret, metrics |-> metrics]
    IN  Bind(start_round(g, base_bet), LAMBDA sr :
        IF sr.ret = "False" THEN Played(sr.g, "ok", NewMetrics)
        ELSE IF sr.ret # "True" THEN Played(sr.g, sr.ret, NewMetrics)
        ELSE Bind(PlayHands([g |-> sr.g, ret |-> "ok", metrics |-> NewMetrics,
                             surrendered |-> {}], 1, action),
             LAMBDA st :
             IF st.ret # "ok" THEN Played(st.g, st.ret, st.metrics)
             ELSE Bind(finish_round(st.g), LAMBDA fr :
                  IF fr.ret # "RoundResult" THEN Played(fr.g, fr.ret, st.metrics)
                  ELSE Played(fr.g, "ok",
                              Tally(fr.results, st.surrendered, st.metrics, 1)))))

\* a worker process running _simulate_batch: its own game, the hands it has
\* still to play, the results so far and bankroll_history
NewWorker(shoe, bank, num_hands) ==
    [game |-> NewGame(shoe, bank), left |-> num_hands, results |-> NewResults,
     history |-> <<>>, status |-> "running", error |-> "None"]

\* the game a pass of the loop of _simulate_batch plays on: a new one after a
\* Complete round, a new one with the initial bankroll below the base bet
GameForHand(g, shoe, initial_bankroll) ==
    Bind(IF g.round_state = "COMPLETE" THEN NewGame(shoe, g.bankroll) ELSE g,
    LAMBDA g1 :
         IF g1.bankroll < base_bet THEN NewGame(shoe, initial_bankroll) ELSE g1)

\* one pass of the loop of _simulate_batch
BatchStep(wk, shoe, initial_bankroll, action) ==
    Bind(GameForHand(wk.game, shoe, initial_bankroll), LAMBDA g :
    Bind(play_hand(g, action), LAMBDA ph :
    IF ph.ret # "ok"
    THEN [wk EXCEPT !.game = ph.g, !.status = "raised", !.error = ph.ret]
    ELSE Bind(ph.g.bankroll - g.bankroll, LAMBDA hand_result :
         [wk EXCEPT
              !.game = ph.g,
              !.left = @ - 1,
              !.results = [@ EXCEPT
                  !.hands_played = @ + 1,
                  !.total_wagered = @ + (IF ph.metrics.double # 0
                                         THEN base_bet * 2 ELSE base_bet),
                  !.total_won = @ + (IF hand_result > 0 THEN hand_result ELSE 0),
                  !.total_lost = @ + (IF hand_result > 0 THEN 0 ELSE 0 - hand_result),
                  !.blackjacks = @ + ph.metrics.blackjack,
                  !.wins = @ + ph.metrics.win,
                  !.losses = @ + ph.metrics.loss,
                  !.pushes = @ + ph.metrics.push,
                  !.surrenders = @ + ph.metrics.surrender,
                  !.doubles = @ + ph.metrics.double,
                  !.splits = @ + ph.metrics.split],
              !.history = Append(@, hand_result)])))

\* the end of _simulate_batch: statistics.stdev needs two values
BatchEnd(wk) ==
    IF Len(wk.history) = 1
    THEN [wk EXCEPT !.status = "raised", !.error = "StatisticsError"]
    ELSE [wk EXCEPT !.status = "returned"]

\* _combine_simulation_results: the sums, field by field
RECURSIVE SumResults(_)
SumResults(rs) ==
    IF rs = <<>> THEN NewResults
    ELSE LET r == rs[1]
             t == SumResults(Tail(rs))
         IN  [f \in DOMAIN NewResults |-> r[f] + t[f]]

RECURSIVE AllValues(_)
AllValues(ws) == IF ws = <<>> THEN <<>> ELSE ws[1].history \o AllValues(Tail(ws))

\* run_simulation asked for num_hands hands with SimWorkers processes: every
\* worker is handed the simulator and builds its own game
InitSim ==
    /\ cards = [k \in 1..ShoeCards |-> "K"]
    /\ discard_pile = <<>>
    /\ bankroll = InitialBankroll
    /\ hands = <<NewHand>>
    /\ dealer_hand = NewHand
    /\ round_state = "NOT_STARTED"
    /\ stats = NewStats
    /\ last = [op |-> "init", bet |-> 0, idx |-> 0, ret |-> "None",
               results |-> <<>>, total |-> 0, amount |-> 0]
    /\ wager = NoWager
    /\ \E num_hands \in 0..MaxNumHands, bank \in {base_bet, InitialBankroll},
          shoes \in [1..SimWorkers -> SimDecks] :
           sim = [workers |-> [w \in 1..SimWorkers |->
                                  NewWorker(shoes[w], bank, num_hands \div SimWorkers)],
                  num_hands |-> num_hands,
                  hands_per_process |-> num_hands \div SimWorkers,
                  initial_bankroll |-> bank,
                  collected |-> 0, status |-> "running", error |-> "None",
                  combined |-> <<>>]

\* worker w plays one hand
SimulateHand ==
    \E w \in 1..SimWorkers :
        /\ sim.status = "running"
        /\ sim.workers[w].status = "running"
        /\ sim.workers[w].left > 0
        /\ \E action \in Actions,
              shoe \in IF \/ sim.workers[w].game.round_state = "COMPLETE"
                          \/ sim.workers[w].game.bankroll < base_bet
                       THEN SimDecks ELSE {<<>>} :
               \E wk \in {BatchStep(sim.workers[w], shoe, sim.initial_bankroll, action)} :
                   sim' = [sim EXCEPT !.workers[w] = wk]
        /\ UNCHANGED <<cards, discard_pile, bankroll, hands, dealer_hand,
                       round_state, stats, last, wager>>

\* worker w has played its hands and returns its SimulationResult
BatchReturn ==
    \E w \in 1..SimWorkers :
        /\ sim.status = "running"
        /\ sim.workers[w].status = "running"
        /\ sim.workers[w].left = 0
        /\ sim' = [sim EXCEPT !.workers[w] = BatchEnd(@)]
        /\ UNCHANGED <<cards, discard_pile, bankroll, hands, dealer_hand,
                       round_state, stats, last, wager>>

\* future.result() of the next future, in the order of submission: the
\* result of a worker that returned, the exception of one that raised
Collect ==
    /\ sim.status = "running"
    /\ sim.collected < SimWorkers
    /\ LET wk == sim.workers[sim.collected + 1]
       IN  /\ wk.status # "running"
           /\ sim' = IF wk.status = "raised"
                     THEN [sim EXCEPT !.status = "raised", !.error = wk.error]
                     ELSE [sim EXCEPT !.collected = @ + 1]
    /\ UNCHANGED <<cards, discard_pile, bankroll, hands, dealer_hand,
                   round_state, stats, last, wager>>

\* _combine_simulation_results, then the house edge
Combine ==
    /\ sim.status = "running"
    /\ sim.collected = SimWorkers
    /\ LET combined == SumResults([w \in 1..SimWorkers |-> sim.workers[w].results])
       IN  sim' = IF Len(AllValues(sim.workers)) < 2
                  THEN [sim EXCEPT !.status = "raised", !.error = "StatisticsError"]
                  ELSE IF combined.total_wagered = 0
                  THEN [sim EXCEPT !.status = "raised", !.error = "ZeroDivisionError"]
                  ELSE [sim EXCEPT !.status = "returned", !.combined = combined]
    /\ UNCHANGED <<cards, discard_pile, bankroll, hands, dealer_hand,
                   round_state, stats, last, wager>>

NextSim ==
    \/ SimulateHand
    \/ BatchReturn
    \/ Collect
    \/ Combine

SpecSim == InitSim /\ [][NextSim]_vars

\* C29: no worker's _simulate_batch ends in an exception, and the result a
\* worker returns reports as many hands played as it was asked to play.
C29_BatchCompletes ==
    \A w \in 1..Len(sim.workers) :
        /\ sim.workers[w].status # "raised"
        /\ sim.workers[w].status = "returned"
              => sim.workers[w].results.hands_played = sim.hands_per_process

\* what the first k workers count in the field f of their results
RECURSIVE WorkersCount(_, _)
WorkersCount(f, k) ==
    IF k = 0 THEN 0 ELSE sim.workers[k].results[f] + WorkersCount(f, k - 1)

\* C30: run_simulation does not end in an exception, and the report it
\* returns counts SimWorkers * hands_per_process hands played and, for wins,
\* losses, pushes, surrenders, blackjacks, doubles and splits, the sum of what
\* the workers counted.
C30_AggregateReport ==
    /\ sim.status # "raised"
    /\ sim.status = "returned"
          => /\ sim.combined.hands_played = SimWorkers * sim.hands_per_process
             /\ \A f \in {"wins", "losses", "pushes", "surrenders", "blackjacks",
                          "doubles", "splits"} :
                    sim.combined[f] = WorkersCount(f, SimWorkers)

\* the hands the first k workers were handed: those played and those left
RECURSIVE HandsHandedOut(_)
HandsHandedOut(k) ==
    IF k = 0 THEN 0
    ELSE sim.workers[k].results.hands_played + sim.workers[k].left
         + HandsHandedOut(k - 1)

\* C31: the hands run_simulation hands to its workers add up to num_hands,
\* and the report it returns counts num_hands hands played.
C31_AllHandsDistributed ==
    sim.status # "none"
       => /\ HandsHandedOut(Len(sim.workers)) = sim.num_hands
          /\ sim.status = "returned" => sim.combined.hands_played = sim.num_hands

\* a hand finish_round has the dealer to beat: not busted, not surrendered,
\* not settled by even money, not a natural
Contested(h) ==
    /\ HandTotal(h.cards) <= 21
    /\ ~h.is_surrendered
    /\ ~h.took_even_money
    /\ ~Natural(h)

\* C32: a finish_round that returns a RoundResult outside the dead-hand path
\* (every hand was done, or the dealer's draws were all served) and has
\* resolved a hand that had the dealer to beat leaves a dealer hand of at
\* least 17 that is not a soft 17.
C32_DealerPlayedOut ==
    [][(/\ last'.op = "finish_round"
        /\ last'.ret = "RoundResult"
        /\ \E k \in 1..Len(hands) : Contested(hands[k])
        /\ \/ \A k \in 1..Len(hands) : Settled(hands[k])
           \/ ~(cards' = <<>> /\ DealerMustDraw(dealer_hand')))
          => ~DealerMustDraw(dealer_hand')]_vars

\* the names last.op gives the player actions, direct or through execute_move
PlayerActionOps ==
    {"hit", "double_down", "split", "surrender", "take_even_money"}
        \cup {ExecOp(move) : move \in TurnMoves}

\* C33: a player action invoked on a hand that is done leaves the hand (its
\* cards, its bet and its flags) and the bankroll as they were.
C33_DoneHandUntouched ==
    [][(last'.op \in PlayerActionOps /\ Settled(hands[last'.idx]))
          => /\ hands'[last'.idx] = hands[last'.idx]
             /\ bankroll' = bankroll]_vars


\* C34: place_insurance on a hand that already carries an insurance bet
\* fails and debits nothing.
C34_InsuredOnce ==
    [][(last'.op = "place_insurance" /\ hands[last'.idx].insurance_bet > 0)
          => /\ last'.ret # "True"
             /\ bankroll' = bankroll]_vars


\* the cards of a sequence, last first
RECURSIVE Reversed(_)
Reversed(s) == IF s = <<>> THEN <<>> ELSE Append(Reversed(Tail(s)), Head(s))

\* C35: whatever the penetration between 0 and 1, a draw from an empty
\* undealt list returns None and leaves the list empty, and no draw ever
\* restarts the shoe: the undealt cards followed by the discards, last dealt
\* first, stay the sequence the shoe was built with, so that each of its cards
\* is dealt exactly once.
C35_NoReshuffle ==
    [][last'.op = "draw"
          => /\ cards' \o Reversed(discard_pile') = cards \o Reversed(discard_pile)
             /\ cards = <<>> => (last'.ret = "None" /\ cards' = <<>>)]_vars

\* the shoe was dealt to its last card under a penetration of 0 and the next
\* draw found it empty
C35_Witness ==
    /\ last.op = "draw" /\ last.ret = "None" /\ last.idx = 0
    /\ cards = <<>>
    /\ Len(discard_pile) = ShoeCards


C37_StatsAddUp ==
    /\ stats.hands_played = stats.hands_won + stats.hands_lost
                                + stats.hands_pushed + stats.hands_surrendered
    /\ stats.blackjacks <= stats.hands_won


\* the final player hands a worker's results count: wins, losses, pushes and
\* surrenders together
OutcomesCounted(r) == r.wins + r.losses + r.pushes + r.surrenders

\* C38: a round a worker simulates on a shoe that holds the cards of the deal
\* starts and completes, and play_hand's metrics count each of its final
\* hands once: wins, losses, pushes and surrenders grow together by 1 plus the
\* splits of the round.
C38_EachHandCountedOnce ==
    [][\A w \in 1..Len(sim.workers) :
          (/\ sim.workers[w].status = "running"
           /\ sim.workers[w].left > 0
           /\ sim'.workers[w] # sim.workers[w])
             => /\ sim'.workers[w].status = "running"
                /\ OutcomesCounted(sim'.workers[w].results)
                       - OutcomesCounted(sim.workers[w].results)
                   = 1 + sim'.workers[w].results.splits
                       - sim.workers[w].results.splits]_vars

====
